---- MODULE Spec2Model ----
(***************************************************************************)
(* CS Community (Sky_Hub_Project): the identity resolver (register, login, *)
(* logout, Google sign-in) and the content / interaction model (posts,     *)
(* comments, likes) of app.py, oauth.py, models.py and forms.py.           *)
(*                                                                         *)
(* The database is the four tables of models.py.  Each browser session     *)
(* issues one request at a time; requests of different sessions run        *)
(* concurrently.  A handler that reads and later commits (register,        *)
(* toggle_like) is two steps, read and commit, and steps of other sessions *)
(* may fall between them; a commit is one transaction.  Primary keys are   *)
(* allocated as max(id) + 1.                                               *)
(***************************************************************************)
EXTENDS Integers, Sequences, FiniteSets, TLC

VARIABLES users, posts, comments, likes, current_user, oauth_nonce, pc, local, resp

vars == <<users, posts, comments, likes, current_user, oauth_nonce, pc, local, resp>>

db == <<users, posts, comments, likes>>

----------------------------------------------------------------------------
(* Bounds and input domains *)

MaxUsers == 2
MaxPosts == 1
MaxComments == 1
MaxLikesCount == 2
MaxLikeId == 3

Sessions == {"s1", "s2"}

\* "" is the empty form field
Usernames == {"ann", "bob"}
Emails == {"ann@cs.edu", "bob@cs.edu"}
Passwords == {"pw-one", "pw-two"}
Nonces == {"n1", "n2"}
Subjects == {"g-1"}

----------------------------------------------------------------------------
(* Rows and primary keys *)

Max(S) == CHOOSE m \in S : \A x \in S : x <= m

\* the id an INSERT into a table holding `rows` gets
NextId(rows) == 1 + Max({r.id : r \in rows} \cup {0})

\* flask_login: the anonymous user has no id; a session without "_user_id"
Anonymous == 0

is_authenticated(s) == current_user[s] # Anonymous

\* models.py User: the mapped columns
UserColumns ==
  {"id", "username", "email", "password_hash", "track", "skills",
   "available_for_project", "github_link", "portfolio_link", "linkedin_link",
   "phone_number", "cv_file", "profile_image"}

\* werkzeug generate_password_hash: a salted one-way token
generate_password_hash(password, salt) ==
  [method |-> "scrypt", salt |-> salt, digest |-> <<salt, password>>]

\* werkzeug check_password_hash: recompute with the stored salt and compare
check_password_hash(pwhash, password) ==
  pwhash.digest = <<pwhash.salt, password>>

\* User.set_password on a new User(username=..., email=...)
NewUser(id, username, email, password) ==
  [id |-> id, username |-> username, email |-> email,
   password_hash |-> generate_password_hash(password, "salt")]

\* User.check_password
check_password(user, password) == check_password_hash(user.password_hash, password)

----------------------------------------------------------------------------
(* Responses: what the caller sees *)

NoFlash == <<>>

\* the last response served: to which session, for which request (the route and
\* what the request carried), and what the caller got
Response(s, op, request, outcome, flashes, page) ==
  [session |-> s, user |-> current_user[s], op |-> op, request |-> request,
   outcome |-> outcome, flashes |-> flashes, page |-> page]

NoRequest == [none |-> TRUE]
CallbackRequest(exchange_ok, assertion) == [exchange_ok |-> exchange_ok, assertion |-> assertion]
PostRequest(post_id) == [post_id |-> post_id]
PostEditRequest(post_id, form) == [post_id |-> post_id, form |-> form]
CommentNewRequest(post_id, text) == [post_id |-> post_id, text |-> text]
CommentRequest(comment_id) == [comment_id |-> comment_id]
CommentEditRequest(comment_id, text) == [comment_id |-> comment_id, text |-> text]

NoResponse ==
  [session |-> "s1", user |-> Anonymous, op |-> "none", request |-> NoRequest,
   outcome |-> "none", flashes |-> NoFlash, page |-> "none"]

NoLocal == [op |-> "none"]

----------------------------------------------------------------------------
(* Form validation, forms.py *)

\* RegistrationForm: DataRequired, Length(min=3, max=50) / Email, Length(max=120)
\* / DataRequired, Length(min=6)
RegistrationFormValid(form) ==
  /\ Len(form.username) >= 3 /\ Len(form.username) <= 50
  /\ form.email \in Emails /\ Len(form.email) <= 120
  /\ Len(form.password) >= 6

\* LoginForm: DataRequired, Email, Length(max=120) / DataRequired
LoginFormValid(form) ==
  /\ form.email \in Emails /\ Len(form.email) <= 120
  /\ form.password # ""

----------------------------------------------------------------------------
(* register, app.py 129-165 *)

\* a lookup that forgets the email
RegisterLookup_username_only(form) == {u \in users : u.username = form.username}

\* the combined lookup of lines 136-138
RegisterLookup(form) ==
  {u \in users : u.username = form.username \/ u.email = form.email}

\* the unique=True constraints of User.username and User.email
UserUniqueViolation(rows, username, email) ==
  \E u \in rows : u.username = username \/ u.email = email

\* lines 131-140: up to the lookup; the insert is prepared, not yet committed
register(s, form) ==
  /\ pc[s] = "idle"
  /\ IF is_authenticated(s)
       THEN /\ resp' = Response(s, "register", form, "AlreadyAuthenticated", NoFlash, "home")
            /\ UNCHANGED <<pc, local>>
       ELSE IF ~RegistrationFormValid(form)
       THEN /\ resp' = Response(s, "register", form, "ValidationError", NoFlash, "register.html")
            /\ UNCHANGED <<pc, local>>
       ELSE IF RegisterLookup(form) # {}
       THEN /\ resp' = Response(s, "register", form, "DuplicateIdentity",
                                <<"Username or email already registered.">>, "register.html")
            /\ UNCHANGED <<pc, local>>
       ELSE /\ Cardinality(users) < MaxUsers
            /\ pc' = [pc EXCEPT ![s] = "register_commit"]
            /\ local' = [local EXCEPT ![s] = [op |-> "register", form |-> form]]
            /\ UNCHANGED resp
  /\ UNCHANGED <<db, current_user, oauth_nonce>>

\* lines 160-163: db.session.add(user); db.session.commit().  An IntegrityError
\* of the commit is not caught: the request ends as a server error.
register_commit(s) ==
  /\ pc[s] = "register_commit"
  /\ LET form == local[s].form IN
     IF UserUniqueViolation(users, form.username, form.email)
       THEN /\ resp' = Response(s, "register", form, "IntegrityError", NoFlash, "500")
            /\ UNCHANGED users
       ELSE /\ users' = users \cup
                 {NewUser(NextId(users), form.username, form.email, form.password)}
            /\ resp' = Response(s, "register", form, "Registered",
                                <<"Welcome to CS Community! Your account is ready.">>, "login")
  /\ pc' = [pc EXCEPT ![s] = "idle"]
  /\ local' = [local EXCEPT ![s] = NoLocal]
  /\ UNCHANGED <<posts, comments, likes, current_user, oauth_nonce>>

----------------------------------------------------------------------------
(* login / logout, app.py 168-191 *)

\* line 175: User.query.filter_by(email=...).first()
UserByEmail(email) ==
  IF \E u \in users : u.email = email
    THEN (CHOOSE u \in users : u.email = email).id
    ELSE Anonymous

UserRow(id) == CHOOSE u \in users : u.id = id

\* a login that tells an unknown email from a wrong password
LoginResult_enumerating(s, form) ==
  LET uid == UserByEmail(form.email) IN
  IF uid = Anonymous
    THEN [user |-> Anonymous,
          response |-> Response(s, "login", form, "InvalidCredentials",
                                <<"No account with that email.">>, "login.html")]
  ELSE IF check_password(UserRow(uid), form.password)
    THEN [user |-> uid,
          response |-> Response(s, "login", form, "LoggedIn",
                                <<"Welcome back, " \o UserRow(uid).username \o "!">>, "home")]
    ELSE [user |-> Anonymous,
          response |-> Response(s, "login", form, "InvalidCredentials",
                                <<"Incorrect password.">>, "login.html")]

\* lines 175-183: what a validated login form gets: the response and the user
\* logged in (Anonymous when none)
LoginResult(s, form) ==
  LET uid == UserByEmail(form.email) IN
  IF uid # Anonymous /\ check_password(UserRow(uid), form.password)
    THEN [user |-> uid,
          response |-> Response(s, "login", form, "LoggedIn",
                                <<"Welcome back, " \o UserRow(uid).username \o "!">>, "home")]
    ELSE [user |-> Anonymous,
          response |-> Response(s, "login", form, "InvalidCredentials",
                                <<"Incorrect email or password.">>, "login.html")]

login(s, form) ==
  /\ pc[s] = "idle"
  /\ IF is_authenticated(s)
       THEN /\ resp' = Response(s, "login", form, "AlreadyAuthenticated", NoFlash, "home")
            /\ UNCHANGED current_user
       ELSE IF ~LoginFormValid(form)
       THEN /\ resp' = Response(s, "login", form, "ValidationError", NoFlash, "login.html")
            /\ UNCHANGED current_user
       ELSE /\ resp' = LoginResult(s, form).response
            /\ current_user' = [current_user EXCEPT ![s] = LoginResult(s, form).user]
  /\ UNCHANGED <<db, oauth_nonce, pc, local>>

\* @login_required: an anonymous request is sent to the login page
LoginRequired(s, op, request) ==
  Response(s, op, request, "LoginRequired",
           <<"Please log in to access CS Community.">>, "login")

\* a logout that answers without calling logout_user()
logout_session_kept(s) ==
  /\ pc[s] = "idle"
  /\ resp' = IF ~is_authenticated(s)
               THEN LoginRequired(s, "logout", NoRequest)
               ELSE Response(s, "logout", NoRequest, "LoggedOut",
                             <<"You have signed out of CS Community.">>, "login")
  /\ UNCHANGED <<db, current_user, oauth_nonce, pc, local>>

logout(s) ==
  /\ pc[s] = "idle"
  /\ IF ~is_authenticated(s)
       THEN /\ resp' = LoginRequired(s, "logout", NoRequest)
            /\ UNCHANGED current_user
       ELSE /\ current_user' = [current_user EXCEPT ![s] = Anonymous]
            /\ resp' = Response(s, "logout", NoRequest, "LoggedOut",
                                <<"You have signed out of CS Community.">>, "login")
  /\ UNCHANGED <<db, oauth_nonce, pc, local>>

\* /clear_session: session.clear(); logout_user().  Not behind login_required.
clear_session(s) ==
  /\ pc[s] = "idle"
  /\ current_user' = [current_user EXCEPT ![s] = Anonymous]
  /\ oauth_nonce' = [oauth_nonce EXCEPT ![s] = ""]
  /\ resp' = [Response(s, "clear_session", NoRequest, "LoggedOut",
                       <<"Session cleared.">>, "login") EXCEPT !.user = Anonymous]
  /\ UNCHANGED <<db, pc, local>>

----------------------------------------------------------------------------
(* edit_profile, app.py 293-329.  Of the columns it writes, the User rows    *)
(* here carry username and email.                                           *)

\* EditProfileForm: username DataRequired, Length(min=3, max=50); email
\* DataRequired, Email, Length(max=120)
EditProfileFormValid(form) ==
  /\ Len(form.username) >= 3 /\ Len(form.username) <= 50
  /\ form.email \in Emails /\ Len(form.email) <= 120

\* the commit of line 321 is not guarded: a username or email that another
\* User holds is an IntegrityError and the request ends as a server error
edit_profile(s, form) ==
  /\ pc[s] = "idle"
  /\ IF ~is_authenticated(s)
       THEN /\ resp' = LoginRequired(s, "edit_profile", form)
            /\ UNCHANGED users
       ELSE IF ~EditProfileFormValid(form)
       THEN /\ resp' = Response(s, "edit_profile", form, "ValidationError", NoFlash,
                                "edit_profile.html")
            /\ UNCHANGED users
       ELSE IF UserUniqueViolation(users \ {UserRow(current_user[s])}, form.username, form.email)
       THEN /\ resp' = Response(s, "edit_profile", form, "IntegrityError", NoFlash, "500")
            /\ UNCHANGED users
       ELSE /\ users' = (users \ {UserRow(current_user[s])}) \cup
                          {[UserRow(current_user[s]) EXCEPT !.username = form.username,
                                                           !.email = form.email]}
            /\ resp' = Response(s, "edit_profile", form, "Updated",
                                <<"Profile updated successfully.">>, "profile")
  /\ UNCHANGED <<posts, comments, likes, current_user, oauth_nonce, pc, local>>

----------------------------------------------------------------------------
(* Google sign-in, oauth.py 41-118 *)

google_login(s, nonce) ==
  /\ pc[s] = "idle"
  /\ IF is_authenticated(s)
       THEN /\ resp' = Response(s, "google_login", NoRequest, "AlreadyAuthenticated",
                                NoFlash, "home")
            /\ UNCHANGED oauth_nonce
       ELSE /\ oauth_nonce' = [oauth_nonce EXCEPT ![s] = nonce]
            /\ resp' = Response(s, "google_login", NoRequest, "Redirect", NoFlash, "google")
  /\ UNCHANGED <<db, current_user, pc, local>>

\* google.parse_id_token(token, nonce=nonce), nonce being what line 70 popped
\* from the session, None ("") when the session holds none.  Authlib's
\* validate_nonce compares the ID token's nonce claim with a nonce that was
\* passed in and checks nothing when the nonce passed in is None.
parse_id_token_ok(assertion, nonce) ==
  nonce = "" \/ assertion.nonce = nonce

\* User.query.filter_by(<column>=...): SQLAlchemy raises InvalidRequestError
\* for a keyword that is no mapped attribute of the entity
filter_by_raises(column) == column \notin UserColumns

\* exchange_ok: whether google.authorize_access_token() returned a token.
\* Line 88 is the first query of step 3 and every request that gets there
\* raises at it: User maps no google_id column (models.py 12-30), so lines
\* 90-118 (link by email, create, login_user) never run.
google_callback(s, exchange_ok, assertion) ==
  /\ pc[s] = "idle"
  /\ LET request == CallbackRequest(exchange_ok, assertion) IN
     IF ~exchange_ok
       THEN /\ resp' = Response(s, "google_callback", request, "TokenExchangeFailed",
                                <<"Google sign-in failed. Please try again.">>, "login")
            /\ UNCHANGED oauth_nonce
       ELSE /\ oauth_nonce' = [oauth_nonce EXCEPT ![s] = ""]
            /\ IF ~parse_id_token_ok(assertion, oauth_nonce[s])
                 THEN resp' = Response(s, "google_callback", request,
                                       "ReplayOrInvalidAssertion",
                                       <<"Authentication error. Please try again.">>, "login")
                 ELSE IF assertion.sub = "" \/ assertion.email = ""
                 THEN resp' = Response(s, "google_callback", request,
                                       "MissingAccountDetails",
                                       <<"Could not retrieve your Google account details.">>,
                                       "login")
                 ELSE /\ filter_by_raises("google_id")
                      /\ resp' = Response(s, "google_callback", request,
                                          "InvalidRequestError", NoFlash, "500")
  /\ UNCHANGED <<db, current_user, pc, local>>

----------------------------------------------------------------------------
(* Text helpers *)

RECURSIVE lstrip(_)
lstrip(t) == IF Len(t) > 0 /\ SubSeq(t, 1, 1) = " " THEN lstrip(SubSeq(t, 2, Len(t))) ELSE t

RECURSIVE rstrip(_)
rstrip(t) ==
  IF Len(t) > 0 /\ SubSeq(t, Len(t), Len(t)) = " " THEN rstrip(SubSeq(t, 1, Len(t) - 1)) ELSE t

\* str.strip()
strip(t) == rstrip(lstrip(t))

\* Python's None where a string may stand; no stripped text equals it
None == " None "

\* forms.py strip_filter: x.strip() if x else None
strip_filter(x) == IF x # "" THEN strip(x) ELSE None

\* Python's `x or ""` on a string or None
OrEmpty(x) == IF x = None THEN "" ELSE x

\* text[:n]
Prefix(t, n) == IF Len(t) > n THEN SubSeq(t, 1, n) ELSE t

\* werkzeug secure_filename, on names of letters, digits, dots and spaces:
\* spaces become underscores
RECURSIVE secure_filename(_)
secure_filename(name) ==
  IF name = "" THEN ""
  ELSE (IF SubSeq(name, 1, 1) = " " THEN "_" ELSE SubSeq(name, 1, 1))
         \o secure_filename(SubSeq(name, 2, Len(name)))

TitleSnippetLen == 80

\* str.replace(" ", "_")
RECURSIVE replace_spaces(_)
replace_spaces(t) ==
  IF t = "" THEN ""
  ELSE (IF SubSeq(t, 1, 1) = " " THEN "_" ELSE SubSeq(t, 1, 1))
         \o replace_spaces(SubSeq(t, 2, Len(t)))

\* str.lower(), on the capitals that the names below are written with
lower_char(ch) ==
  CASE ch = "A" -> "a" [] ch = "L" -> "l" [] ch = "Z" -> "z" [] OTHER -> ch

RECURSIVE lower(_)
lower(t) == IF t = "" THEN "" ELSE lower_char(SubSeq(t, 1, 1)) \o lower(SubSeq(t, 2, Len(t)))

BaseUsernameLen == 40
GivenNameLen == 50

----------------------------------------------------------------------------
(* The username of a Member created by Google sign-in, oauth.py 101-105, 147-154 *)

\* _unique_username(base): the candidate, or the candidate with one suffix,
\* uuid4().hex[:6], when a User holds the candidate
unique_username(rows, base, suffix) ==
  LET candidate == IF base # "" THEN base ELSE "user" IN
  IF ~\E u \in rows : u.username = candidate
    THEN candidate
    ELSE candidate \o "_" \o suffix

\* lines 101-105: the username the new User is given.  given_name is "" when
\* the ID token carries none or an empty one: get() then returns, and `or`
\* then picks, the username of line 102
sso_username(rows, name, given_name, suffix) ==
  LET base_username == Prefix(lower(replace_spaces(name)), BaseUsernameLen)
      username == unique_username(rows, base_username, suffix)
  IN IF given_name # "" THEN Prefix(given_name, GivenNameLen) ELSE username

----------------------------------------------------------------------------
(* Posts, app.py 335-429 *)

PostIds == {p.id : p \in posts}
PostRow(id) == CHOOSE p \in posts : p.id = id
CommentIds == {c.id : c \in comments}
CommentRow(id) == CHOOSE c \in comments : c.id = id

\* PostForm after its filters
PostFormData(form) ==
  [title |-> strip_filter(form.title), content |-> strip_filter(form.content),
   image |-> form.image, video |-> form.video]

\* title: Optional (an empty or blank field ends its validation), Length(max=200);
\* content: DataRequired, Length(min=1)
PostFormValid(data) ==
  /\ OrEmpty(data.title) # "" => Len(data.title) <= 200
  /\ OrEmpty(data.content) # ""

\* lines 353-359 and 362: the stored title of a new post
auto_title(data) ==
  LET given == strip(OrEmpty(data.title))
      content_text == OrEmpty(data.content)
      snippet == strip(Prefix(content_text, TitleSnippetLen))
                   \o (IF Len(content_text) > TitleSnippetLen THEN "..." ELSE "")
      derived == IF given # "" THEN given ELSE snippet
  IN IF derived # "" THEN derived ELSE "Untitled"

new_post(s, form) ==
  /\ pc[s] = "idle"
  /\ LET data == PostFormData(form) IN
     IF ~is_authenticated(s)
       THEN /\ resp' = LoginRequired(s, "new_post", form)
            /\ UNCHANGED posts
       ELSE IF ~PostFormValid(data)
       THEN /\ resp' = Response(s, "new_post", form, "ValidationError", NoFlash, "new_post.html")
            /\ UNCHANGED posts
       ELSE /\ Cardinality(posts) < MaxPosts
            /\ posts' = posts \cup
                 {[id |-> NextId(posts), user_id |-> current_user[s],
                   title |-> auto_title(data), content |-> OrEmpty(data.content),
                   image_file |-> secure_filename(data.image),
                   video_file |-> secure_filename(data.video),
                   likes_count |-> 0]}
            /\ resp' = Response(s, "new_post", form, "Created",
                                <<"Post published to CS Community.">>, "post_detail")
  /\ UNCHANGED <<users, comments, likes, current_user, oauth_nonce, pc, local>>

\* an ownership check that lets every member through
post_forbidden_to_nobody(s, post) == FALSE

\* lines 400-401 and 424-425
post_forbidden(s, post) == post.user_id # current_user[s]

\* lines 404-413: the row as the session holds it before the commit
edited_post(post, data) ==
  [post EXCEPT !.title = data.title,
               !.content = data.content,
               !.image_file = IF data.image # "" THEN secure_filename(data.image) ELSE @,
               !.video_file = IF data.video # "" THEN secure_filename(data.video) ELSE @]

\* Post.title is nullable=False: the UPDATE of a None title is rejected
PostNotNullViolation(post) == post.title = None

edit_post(s, post_id, form) ==
  /\ pc[s] = "idle"
  /\ LET data == PostFormData(form) IN
     IF ~is_authenticated(s)
       THEN /\ resp' = LoginRequired(s, "edit_post", PostEditRequest(post_id, form))
            /\ UNCHANGED posts
       ELSE IF post_id \notin PostIds
       THEN /\ resp' = Response(s, "edit_post", PostEditRequest(post_id, form),
                                "NotFound", NoFlash, "404")
            /\ UNCHANGED posts
       ELSE IF post_forbidden(s, PostRow(post_id))
       THEN /\ resp' = Response(s, "edit_post", PostEditRequest(post_id, form),
                                "NotAuthor", NoFlash, "403")
            /\ UNCHANGED posts
       ELSE IF ~PostFormValid(data)
       THEN /\ resp' = Response(s, "edit_post", PostEditRequest(post_id, form),
                                "ValidationError", NoFlash, "edit_post.html")
            /\ UNCHANGED posts
       ELSE IF PostNotNullViolation(edited_post(PostRow(post_id), data))
       THEN /\ resp' = Response(s, "edit_post", PostEditRequest(post_id, form),
                                "IntegrityError", NoFlash, "500")
            /\ UNCHANGED posts
       ELSE /\ posts' = (posts \ {PostRow(post_id)}) \cup {edited_post(PostRow(post_id), data)}
            /\ resp' = Response(s, "edit_post", PostEditRequest(post_id, form), "Updated",
                                <<"Post updated.">>, "post_detail")
  /\ UNCHANGED <<users, comments, likes, current_user, oauth_nonce, pc, local>>

\* a deletion that leaves the rows of the deleted posts behind
without_posts_uncascaded(rows, post_ids) == rows

\* Post.comments and Post.likes, cascade="all, delete-orphan": the comment or
\* like rows left when the posts post_ids are deleted
without_posts(rows, post_ids) == {r \in rows : r.post_id \notin post_ids}

\* User.comments and User.likes, cascade="all, delete-orphan"
without_user(rows, user_id) == {r \in rows : r.user_id # user_id}

delete_post(s, post_id) ==
  /\ pc[s] = "idle"
  /\ IF ~is_authenticated(s)
       THEN /\ resp' = LoginRequired(s, "delete_post", PostRequest(post_id))
            /\ UNCHANGED <<posts, comments, likes>>
       ELSE IF post_id \notin PostIds
       THEN /\ resp' = Response(s, "delete_post", PostRequest(post_id), "NotFound", NoFlash, "404")
            /\ UNCHANGED <<posts, comments, likes>>
       ELSE IF post_forbidden(s, PostRow(post_id))
       THEN /\ resp' = Response(s, "delete_post", PostRequest(post_id), "NotAuthor", NoFlash, "403")
            /\ UNCHANGED <<posts, comments, likes>>
       ELSE /\ posts' = posts \ {PostRow(post_id)}
            /\ comments' = without_posts(comments, {post_id})
            /\ likes' = without_posts(likes, {post_id})
            /\ resp' = Response(s, "delete_post", PostRequest(post_id), "Deleted",
                                <<"Post deleted.">>, "home")
  /\ UNCHANGED <<users, current_user, oauth_nonce, pc, local>>

----------------------------------------------------------------------------
(* Comments, app.py 435-475 *)

\* CommentForm: DataRequired, Length(min=1, max=2000), after strip_filter
CommentFormValid(content) == OrEmpty(content) # "" /\ Len(content) <= 2000

add_comment(s, post_id, text) ==
  /\ pc[s] = "idle"
  /\ LET content == strip_filter(text) IN
     IF ~is_authenticated(s)
       THEN /\ resp' = LoginRequired(s, "add_comment", CommentNewRequest(post_id, text))
            /\ UNCHANGED comments
       ELSE IF post_id \notin PostIds
       THEN /\ resp' = Response(s, "add_comment", CommentNewRequest(post_id, text),
                                "NotFound", NoFlash, "404")
            /\ UNCHANGED comments
       ELSE IF ~CommentFormValid(content)
       THEN /\ resp' = Response(s, "add_comment", CommentNewRequest(post_id, text), "EmptyContent",
                                <<"Comment could not be posted.">>, "post_detail")
            /\ UNCHANGED comments
       ELSE /\ Cardinality(comments) < MaxComments
            /\ comments' = comments \cup
                 {[id |-> NextId(comments), user_id |-> current_user[s],
                   post_id |-> post_id, content |-> content]}
            /\ resp' = Response(s, "add_comment", CommentNewRequest(post_id, text), "Commented",
                                <<"Comment posted.">>, "post_detail")
  /\ UNCHANGED <<users, posts, likes, current_user, oauth_nonce, pc, local>>

\* lines 454-455 and 469-470
comment_forbidden(s, comment) == comment.user_id # current_user[s]

edit_comment(s, comment_id, text) ==
  /\ pc[s] = "idle"
  /\ LET content == strip_filter(text) IN
     IF ~is_authenticated(s)
       THEN /\ resp' = LoginRequired(s, "edit_comment", CommentEditRequest(comment_id, text))
            /\ UNCHANGED comments
       ELSE IF comment_id \notin CommentIds
       THEN /\ resp' = Response(s, "edit_comment", CommentEditRequest(comment_id, text),
                                "NotFound", NoFlash, "404")
            /\ UNCHANGED comments
       ELSE IF comment_forbidden(s, CommentRow(comment_id))
       THEN /\ resp' = Response(s, "edit_comment", CommentEditRequest(comment_id, text),
                                "NotAuthor", NoFlash, "403")
            /\ UNCHANGED comments
       ELSE IF ~CommentFormValid(content)
       THEN /\ resp' = Response(s, "edit_comment", CommentEditRequest(comment_id, text),
                                "ValidationError", NoFlash,
                                "edit_comment.html")
            /\ UNCHANGED comments
       ELSE /\ comments' = (comments \ {CommentRow(comment_id)}) \cup
                             {[CommentRow(comment_id) EXCEPT !.content = content]}
            /\ resp' = Response(s, "edit_comment", CommentEditRequest(comment_id, text), "Updated",
                                <<"Comment updated.">>, "post_detail")
  /\ UNCHANGED <<users, posts, likes, current_user, oauth_nonce, pc, local>>

delete_comment(s, comment_id) ==
  /\ pc[s] = "idle"
  /\ IF ~is_authenticated(s)
       THEN /\ resp' = LoginRequired(s, "delete_comment", CommentRequest(comment_id))
            /\ UNCHANGED comments
       ELSE IF comment_id \notin CommentIds
       THEN /\ resp' = Response(s, "delete_comment", CommentRequest(comment_id),
                                "NotFound", NoFlash, "404")
            /\ UNCHANGED comments
       ELSE IF comment_forbidden(s, CommentRow(comment_id))
       THEN /\ resp' = Response(s, "delete_comment", CommentRequest(comment_id),
                                "NotAuthor", NoFlash, "403")
            /\ UNCHANGED comments
       ELSE /\ comments' = comments \ {CommentRow(comment_id)}
            /\ resp' = Response(s, "delete_comment", CommentRequest(comment_id), "Deleted",
                                <<"Comment deleted.">>, "post_detail")
  /\ UNCHANGED <<users, posts, likes, current_user, oauth_nonce, pc, local>>

----------------------------------------------------------------------------
(* Likes, app.py 481-499 *)

\* line 485: Like.query.filter_by(user_id=..., post_id=...).first() on the rows
\* of the like table: the id of the row found, 0 for None
ExistingLike(rows, user_id, post_id) ==
  LET found == {l \in rows : l.user_id = user_id /\ l.post_id = post_id} IN
  IF found = {} THEN 0 ELSE (CHOOSE l \in found : \A k \in found : l.id <= k.id).id

\* Python's `x or d` on an integer
Or(x, d) == IF x # 0 THEN x ELSE d

\* a decrement with neither the `or 1` nor the max(..., 0)
unliked_count_unclamped(likes_count) == likes_count - 1

\* line 488
unliked_count(likes_count) ==
  IF Or(likes_count, 1) - 1 > 0 THEN Or(likes_count, 1) - 1 ELSE 0

\* line 492
liked_count(likes_count) == Or(likes_count, 0) + 1

\* a like table without the constraint
LikeUniqueViolation_unenforced(rows, user_id, post_id) == FALSE

\* Like.__table_args__: UniqueConstraint("user_id", "post_id")
LikeUniqueViolation(rows, user_id, post_id) ==
  \E l \in rows : l.user_id = user_id /\ l.post_id = post_id

\* lines 484-493: what the request has read, and the changes its session holds
\* for the commit: the Like to delete (existing) or to insert, and the new
\* value of post.likes_count
ToggleRead(likeRows, postRows, user_id, post_id) ==
  LET post == CHOOSE p \in postRows : p.id = post_id
      existing == ExistingLike(likeRows, user_id, post_id) IN
  [op |-> "toggle_like", user_id |-> user_id, post_id |-> post_id,
   existing |-> existing,
   likes_count |-> IF existing # 0 THEN unliked_count(post.likes_count)
                                   ELSE liked_count(post.likes_count)]

toggle_like(s, post_id) ==
  /\ pc[s] = "idle"
  /\ IF ~is_authenticated(s)
       THEN /\ resp' = LoginRequired(s, "toggle_like", PostRequest(post_id))
            /\ UNCHANGED <<pc, local>>
       ELSE IF post_id \notin PostIds
       THEN /\ resp' = Response(s, "toggle_like", PostRequest(post_id),
                                "NotFound", NoFlash, "404")
            /\ UNCHANGED <<pc, local>>
       ELSE /\ ExistingLike(likes, current_user[s], post_id) = 0 =>
                 /\ liked_count(PostRow(post_id).likes_count) <= MaxLikesCount
                 /\ NextId(likes) <= MaxLikeId
            /\ pc' = [pc EXCEPT ![s] = "toggle_like_commit"]
            /\ local' = [local EXCEPT ![s] = ToggleRead(likes, posts, current_user[s], post_id)]
            /\ UNCHANGED resp
  /\ UNCHANGED <<db, current_user, oauth_nonce>>

\* the tables after the flush of the pending changes l: the DELETE (by primary
\* key) or INSERT of the Like, and the UPDATE of post.likes_count to the value
\* computed from the read
LikesAfter(likeRows, l) ==
  IF l.existing # 0
    THEN {k \in likeRows : k.id # l.existing}
    ELSE likeRows \cup {[id |-> NextId(likeRows), user_id |-> l.user_id, post_id |-> l.post_id]}

PostsAfter(postRows, l) ==
  {IF p.id = l.post_id THEN [p EXCEPT !.likes_count = l.likes_count] ELSE p : p \in postRows}

\* lines 494-499: db.session.commit().  The UPDATE of a post row that is gone
\* matches no row (StaleDataError, not caught); the INSERT of a second Like for
\* the pair is an IntegrityError, caught: rollback
toggle_like_commit(s) ==
  /\ pc[s] = "toggle_like_commit"
  /\ local[s].existing = 0 => NextId(likes) <= MaxLikeId
  /\ LET l == local[s]
         said == IF l.existing # 0 THEN "Like removed." ELSE "Post liked!" IN
     IF l.post_id \notin PostIds
       THEN /\ resp' = Response(s, "toggle_like", PostRequest(l.post_id),
                                "StaleDataError", <<said>>, "500")
            /\ UNCHANGED <<posts, likes>>
       ELSE IF l.existing = 0 /\ LikeUniqueViolation(likes, l.user_id, l.post_id)
       THEN /\ resp' = Response(s, "toggle_like", PostRequest(l.post_id), "InteractionFailed",
                                <<said, "Database error. Please try again.">>, "post_detail")
            /\ UNCHANGED <<posts, likes>>
       ELSE /\ likes' = LikesAfter(likes, l)
            /\ posts' = PostsAfter(posts, l)
            /\ resp' = Response(s, "toggle_like", PostRequest(l.post_id),
                                IF l.existing # 0 THEN "Unliked" ELSE "Liked",
                                <<said>>, "post_detail")
  /\ pc' = [pc EXCEPT ![s] = "idle"]
  /\ local' = [local EXCEPT ![s] = NoLocal]
  /\ UNCHANGED <<users, comments, current_user, oauth_nonce>>

\* toggle_like run from its first line to its last with no other request in
\* between: the like and post tables it leaves
Toggled(likeRows, postRows, user_id, post_id) ==
  LET l == ToggleRead(likeRows, postRows, user_id, post_id) IN
  [likes |-> LikesAfter(likeRows, l), posts |-> PostsAfter(postRows, l)]

----------------------------------------------------------------------------

InitCommon ==
  /\ posts = {} /\ comments = {} /\ likes = {}
  /\ current_user = [s \in Sessions |-> Anonymous]
  /\ oauth_nonce = [s \in Sessions |-> ""]
  /\ pc = [s \in Sessions |-> "idle"]
  /\ local = [s \in Sessions |-> NoLocal]
  /\ resp = NoResponse

\* the database after db.create_all()
InitAuth == users = {} /\ InitCommon

\* every member registers with the first password; the second is the wrong one
RegisterForms == [username : Usernames \cup {""}, email : Emails, password : {"pw-one"}]
LoginForms == [email : Emails \cup {""}, password : Passwords]
Assertions == [sub : Subjects, email : Emails \cup {""}, name : {"Ann Lee"}, nonce : Nonces]

NextAuth ==
  \E s \in Sessions :
    \/ \E form \in RegisterForms : register(s, form)
    \/ register_commit(s)
    \/ \E form \in LoginForms : login(s, form)
    \/ logout(s)
    \/ \E nonce \in Nonces : google_login(s, nonce)
    \/ \E ok \in BOOLEAN, a \in Assertions : google_callback(s, ok, a)

SpecAuth == InitAuth /\ [][NextAuth]_vars

----------------------------------------------------------------------------
(* A deployment with two registered members, and the requests on content *)

Members ==
  {NewUser(1, "ann", "ann@cs.edu", "pw-one"), NewUser(2, "bob", "bob@cs.edu", "pw-one")}

\* SpecAuth reaches this database: ann registers, then bob
MembersRegistered == users = Members

InitMembers == users = Members /\ InitCommon

MemberLogins == [email : Emails, password : {"pw-one"}]

PostIdInputs == 1..MaxPosts
CommentIdInputs == 1..MaxComments

LikePostForms == {[title |-> "", content |-> "hello", image |-> "", video |-> ""]}

NextLikes ==
  \E s \in Sessions :
    \/ \E form \in MemberLogins : login(s, form)
    \/ \E form \in LikePostForms : new_post(s, form)
    \/ \E p \in PostIdInputs : toggle_like(s, p)
    \/ toggle_like_commit(s)
    \/ \E p \in PostIdInputs : delete_post(s, p)

SpecLikes == InitMembers /\ [][NextLikes]_vars

PostForms ==
  {[title |-> "", content |-> " ", image |-> "", video |-> ""],
   [title |-> "", content |-> " hello ", image |-> "", video |-> ""],
   [title |-> " News", content |-> "bye", image |-> "my pic.png", video |-> "clip.mp4"]}
CommentTexts == {"", "nice", "thanks"}

\* one browser, which logs in as either member in turn
NextContent ==
  \E s \in {"s1"} :
    \/ \E form \in MemberLogins : login(s, form)
    \/ logout(s)
    \/ \E form \in PostForms : new_post(s, form)
    \/ \E p \in PostIdInputs, form \in PostForms : edit_post(s, p, form)
    \/ \E p \in PostIdInputs : delete_post(s, p)
    \/ \E p \in PostIdInputs, text \in CommentTexts : add_comment(s, p, text)
    \/ \E c \in CommentIdInputs, text \in CommentTexts : edit_comment(s, c, text)
    \/ \E c \in CommentIdInputs : delete_comment(s, c)

SpecContent == InitMembers /\ [][NextContent]_vars

----------------------------------------------------------------------------
(* The username chosen for a new Google member, over the user tables that    *)
(* registrations can have left                                              *)

DisplayNames == {"", "Ann Lee", "Zed"}
GivenNames == {"", "Ann", "ann"}
Suffixes == {"a1b2c3", "d4e5f6"}

\* members registered under the usernames that the choice can collide with
RegisteredUsers ==
  {NewUser(1, "ann", "ann@cs.edu", "pw-one"),
   NewUser(2, "ann_lee", "bob@cs.edu", "pw-one"),
   NewUser(3, "ann_lee_a1b2c3", "cat@cs.edu", "pw-one"),
   NewUser(4, "user", "dan@cs.edu", "pw-one")}

InitUsername == users \in SUBSET RegisteredUsers /\ InitCommon

\* lines 101-105 run in a callback of session s: the local `user.username`
choose_username(s, name, given_name, suffix) ==
  /\ local' = [local EXCEPT ![s] =
                 [op |-> "google_callback", name |-> name, given_name |-> given_name,
                  username |-> sso_username(users, name, given_name, suffix)]]
  /\ UNCHANGED <<db, current_user, oauth_nonce, pc, resp>>

NextUsername ==
  \E s \in Sessions, name \in DisplayNames, given_name \in GivenNames, suffix \in Suffixes :
    choose_username(s, name, given_name, suffix)

SpecUsername == InitUsername /\ [][NextUsername]_vars

\* C15: the username chosen for the Member that an SSO login creates is held
\* by no existing Member, whatever the display name, the given name and the
\* usernames already taken.
C15_SsoUsernameIsFree ==
  \A s \in Sessions :
    local[s].op = "google_callback"
      => \A u \in users : u.username # local[s].username

----------------------------------------------------------------------------
(* Deletion of rows and the cascades of models.py *)

\* db.session.delete(user); db.session.commit() on the User of models.py.  No
\* route of app.py deletes a User; what the deletion does is declared by the
\* relationships of models.py 33-35 and 70-71: the member's posts, comments and
\* likes go, and with each post its comments and likes.  likes_count is a
\* plain column that no cascade writes.  The member has no request in flight;
\* load_user finds no row for the id afterwards, so the member's sessions are
\* anonymous.
delete_user(user_id) ==
  /\ user_id \in {u.id : u \in users}
  /\ \A s \in Sessions : current_user[s] = user_id => pc[s] = "idle"
  /\ LET owned == {p.id : p \in {q \in posts : q.user_id = user_id}} IN
     /\ users' = {u \in users : u.id # user_id}
     /\ posts' = {p \in posts : p.user_id # user_id}
     /\ comments' = without_posts(without_user(comments, user_id), owned)
     /\ likes' = without_posts(without_user(likes, user_id), owned)
  /\ current_user' = [s \in Sessions |->
                        IF current_user[s] = user_id THEN Anonymous ELSE current_user[s]]
  /\ UNCHANGED <<oauth_nonce, pc, local, resp>>

\* the posts of two new_post requests, ann's then bob's, and a comment by the
\* other member on each
PublishedPost(id, user_id, form) ==
  [id |-> id, user_id |-> user_id,
   title |-> auto_title(PostFormData(form)), content |-> OrEmpty(PostFormData(form).content),
   image_file |-> secure_filename(form.image), video_file |-> secure_filename(form.video),
   likes_count |-> 0]

PublishedPosts ==
  {PublishedPost(1, 1, [title |-> "", content |-> "hello", image |-> "", video |-> ""]),
   PublishedPost(2, 2, [title |-> " News", content |-> "bye", image |-> "", video |-> ""])}

PublishedComments ==
  {[id |-> 1, user_id |-> 2, post_id |-> 1, content |-> "nice"],
   [id |-> 2, user_id |-> 1, post_id |-> 2, content |-> "thanks"]}

PublishedPostIds == {p.id : p \in PublishedPosts}

InitCascade ==
  /\ users = Members /\ posts = PublishedPosts /\ comments = PublishedComments
  /\ likes = {}
  /\ current_user = [s \in Sessions |-> Anonymous]
  /\ oauth_nonce = [s \in Sessions |-> ""]
  /\ pc = [s \in Sessions |-> "idle"]
  /\ local = [s \in Sessions |-> NoLocal]
  /\ resp = NoResponse

NextCascade ==
  \/ \E s \in Sessions :
       \/ \E form \in MemberLogins : login(s, form)
       \/ \E p \in PublishedPostIds : toggle_like(s, p)
       \/ toggle_like_commit(s)
       \/ \E p \in PublishedPostIds : delete_post(s, p)
  \/ \E u \in {m.id : m \in Members} : delete_user(u)

SpecCascade == InitCascade /\ [][NextCascade]_vars

\* every comment and like is of a stored post and a stored member, and every
\* post of a stored member
NoDanglingReference ==
  /\ \A p \in posts : p.user_id \in {u.id : u \in users}
  /\ \A c \in comments : c.post_id \in PostIds /\ c.user_id \in {u.id : u \in users}
  /\ \A l \in likes : l.post_id \in PostIds /\ l.user_id \in {u.id : u \in users}

C17_LikesCountAfterMemberDeleted ==
  [][\A u \in {m.id : m \in Members} :
       ( /\ delete_user(u)
         /\ \A p \in posts :
              p.likes_count = Cardinality({l \in likes : l.post_id = p.id}) )
       => \A p \in posts' :
            p.likes_count = Cardinality({l \in likes' : l.post_id = p.id})]_vars

----------------------------------------------------------------------------
(* Properties of the like toggle, checked under SpecLikes *)

LikesOf(likeRows, post_id) == {l \in likeRows : l.post_id = post_id}
Liked(likeRows, user_id, post_id) == ExistingLike(likeRows, user_id, post_id) # 0
CountOf(postRows, post_id) == (CHOOSE p \in postRows : p.id = post_id).likes_count
UserIds == {u.id : u \in users}

\* C1: in every reachable state, whatever the interleaving of the toggle_like
\* requests, each post's likes_count is the number of Like rows of that post.
C1_LikesCountIsCardinality ==
  \A p \in posts : p.likes_count = Cardinality(LikesOf(likes, p.id))

\* C2: there is never more than one Like row for a (member, post) pair, also
\* when two toggles of one member on one post both saw no Like.
C2_AtMostOneLikePerPair ==
  \A l1 \in likes, l2 \in likes :
    (l1.user_id = l2.user_id /\ l1.post_id = l2.post_id) => l1 = l2

\* two sessions of one member both read "no Like" for the post; one has
\* committed its Like, the other's commit was rejected
C2_Witness ==
  /\ resp.op = "toggle_like" /\ resp.outcome = "InteractionFailed"
  /\ Cardinality({l \in likes : l.user_id = resp.user /\ l.post_id = resp.request.post_id}) = 1

\* C7: for every member and post, two toggles in a row by that member give
\* back the liked state and the likes_count from before the first; and from
\* likes_count = 0 with no Like of the member, one toggle and three toggles in
\* a row end liked with likes_count = 1.
C7_ToggleTwiceRestores ==
  \A u \in UserIds, p \in PostIds :
    LET t1 == Toggled(likes, posts, u, p)
        t2 == Toggled(t1.likes, t1.posts, u, p)
        t3 == Toggled(t2.likes, t2.posts, u, p)
    IN /\ Liked(t2.likes, u, p) = Liked(likes, u, p)
       /\ CountOf(t2.posts, p) = CountOf(posts, p)
       /\ (CountOf(posts, p) = 0 /\ ~Liked(likes, u, p)) =>
            /\ Liked(t1.likes, u, p) /\ CountOf(t1.posts, p) = 1
            /\ Liked(t3.likes, u, p) /\ CountOf(t3.posts, p) = 1

\* C8: likes_count of every post is never negative, for every sequence of
\* toggles, also from a state where a Like exists while likes_count is 0.
C8_LikesCountNonNegative == \A p \in posts : p.likes_count >= 0

\* a member's Like exists while the post's likes_count is 0, and that member's
\* toggle has read both and holds the new count, 0, for its commit
C8_Witness ==
  \E s \in Sessions :
    /\ pc[s] = "toggle_like_commit"
    /\ \E l \in likes : l.id = local[s].existing /\ l.user_id = local[s].user_id
    /\ local[s].post_id \in PostIds
    /\ CountOf(posts, local[s].post_id) = 0
    /\ local[s].likes_count = 0

\* the messages of a response
Flashed(response) == {response.flashes[i] : i \in DOMAIN response.flashes}

\* C14: when the commit of a toggle_like is rejected for the uniqueness of the
\* Like it inserts, the like table and every post's likes_count stay as they
\* were, and the caller is told the interaction failed and is not told that
\* the post was liked or the like removed.
C14_RejectedToggleAborts ==
  [][\A s \in Sessions :
       ( /\ toggle_like_commit(s)
         /\ local[s].post_id \in PostIds
         /\ local[s].existing = 0
         /\ LikeUniqueViolation(likes, local[s].user_id, local[s].post_id) )
       => /\ likes' = likes /\ posts' = posts
          /\ resp'.outcome = "InteractionFailed"
          /\ Flashed(resp') \cap {"Post liked!", "Like removed."} = {}]_vars

----------------------------------------------------------------------------
(* Properties of registration and login, checked under SpecAuth *)

Collides(form) == \E u \in users : u.username = form.username \/ u.email = form.email

\* C3: of two registrations that share a username or an email and have both
\* passed the lookup, the one that commits second creates no Member and ends
\* with DuplicateIdentity, the outcome of a sequential duplicate.
C3_RaceLoserGetsDuplicateIdentity ==
  [][\A s \in Sessions :
       (pc[s] = "register_commit" /\ Collides(local[s].form) /\ pc'[s] = "idle")
         => (users' = users /\ resp'.outcome = "DuplicateIdentity")]_vars

\* C4: a valid registration by an anonymous caller whose username or whose
\* email is that of an existing Member ends with DuplicateIdentity, leaves
\* the Members as they were, and gets one and the same response whichever
\* field collided.
C4_DuplicateRegistrationRejected ==
  [][\A s \in Sessions, form \in RegisterForms :
       (register(s, form) /\ ~is_authenticated(s) /\ RegistrationFormValid(form)
          /\ Collides(form))
         => /\ users' = users
            /\ pc'[s] = "idle"
            /\ resp' = [session |-> s, user |-> Anonymous, op |-> "register",
                        request |-> form, outcome |-> "DuplicateIdentity",
                        flashes |-> <<"Username or email already registered.">>,
                        page |-> "register.html"]]_vars

\* a registration with a Member's email under a username no Member has was
\* answered DuplicateIdentity
C4_Witness ==
  /\ resp.op = "register" /\ resp.outcome = "DuplicateIdentity"
  /\ \E u \in users : u.email = resp.request.email
  /\ \A u \in users : u.username # resp.request.username

WrongPassword(user, password) ==
  user.password_hash # generate_password_hash(password, user.password_hash.salt)

Seen(response) == [response EXCEPT !.request = NoRequest]

\* C5: whatever Members are stored, a login with a Member's email and a wrong
\* password and a login with an email of no Member get the same response,
\* InvalidCredentials, and neither authenticates the session.
C5_LoginFailuresIndistinguishable ==
  /\ \A s \in Sessions, known \in LoginForms, unknown \in LoginForms :
       ( /\ LoginFormValid(known) /\ LoginFormValid(unknown)
         /\ \E u \in users : u.email = known.email /\ WrongPassword(u, known.password)
         /\ \A u \in users : u.email # unknown.email )
       => /\ LoginResult(s, known).user = Anonymous
          /\ LoginResult(s, unknown).user = Anonymous
          /\ LoginResult(s, known).response.outcome = "InvalidCredentials"
          /\ Seen(LoginResult(s, known).response) = Seen(LoginResult(s, unknown).response)
  /\ (resp.op = "login" /\ resp.outcome = "InvalidCredentials")
       => current_user[resp.session] = Anonymous

\* a login with a Member's email and a wrong password was answered
\* InvalidCredentials while some email belongs to no Member
C5_Witness ==
  /\ resp.op = "login" /\ resp.outcome = "InvalidCredentials"
  /\ \E u \in users : u.email = resp.request.email /\ WrongPassword(u, resp.request.password)
  /\ \E e \in Emails : \A u \in users : u.email # e
  /\ current_user[resp.session] = Anonymous

\* a callback whose token exchange succeeded and whose ID token passed the
\* nonce check and carries a subject id and an email
ValidSsoLogin(s, assertion) ==
  /\ google_callback(s, TRUE, assertion)
  /\ oauth_nonce[s] # "" /\ assertion.nonce = oauth_nonce[s]
  /\ assertion.sub # "" /\ assertion.email # ""

\* C9: an SSO login whose email is that of an existing Member creates no
\* Member and authenticates the session as that Member.
C9_SsoLinksMemberByEmail ==
  [][\A s \in Sessions, a \in Assertions :
       (ValidSsoLogin(s, a) /\ \E u \in users : u.email = a.email)
         => (users' = users /\ current_user'[s] = UserByEmail(a.email))]_vars

\* C10: an SSO login that follows an SSO login with the same subject id
\* authenticates as the same Member as the first, and changes and creates no
\* Member.
C10_SsoLoginIdempotent ==
  [][\A s \in Sessions, a \in Assertions :
       ( /\ ValidSsoLogin(s, a)
         /\ resp.op = "google_callback"
         /\ resp.outcome \notin
              {"TokenExchangeFailed", "ReplayOrInvalidAssertion", "MissingAccountDetails"}
         /\ resp.request.assertion.sub = a.sub )
       => /\ users' = users
          /\ current_user'[s] # Anonymous
          /\ current_user'[s] = current_user[resp.session]]_vars

\* C11: a callback authenticates a session only if the session holds a nonce
\* issued by a redirect and the assertion's nonce equals it; a callback whose
\* token exchange succeeded and that finds no nonce in the session, or a
\* nonce other than the assertion's, is answered ReplayOrInvalidAssertion,
\* changes no Member and authenticates no session.
C11_CallbackNeedsIssuedNonce ==
  [][\A s \in Sessions, a \in Assertions :
       /\ (google_callback(s, TRUE, a) /\ current_user'[s] # current_user[s])
            => (oauth_nonce[s] # "" /\ a.nonce = oauth_nonce[s])
       /\ (google_callback(s, TRUE, a) /\ (oauth_nonce[s] = "" \/ a.nonce # oauth_nonce[s]))
            => /\ resp'.outcome = "ReplayOrInvalidAssertion"
               /\ users' = users
               /\ current_user' = current_user]_vars

\* a User row whose password_hash is NULL
HasNoPasswordHash(user) == user.password_hash = ""

\* C13: an SSO login with an email of no Member creates a Member with that
\* email and no password hash, and a local login with that email then ends
\* with InvalidCredentials and no session, whatever the password.
C13_SsoMemberHasNoPassword ==
  [][\A s \in Sessions, a \in Assertions :
       (ValidSsoLogin(s, a) /\ \A u \in users : u.email # a.email)
       => /\ \E u \in users' : u.email = a.email /\ HasNoPasswordHash(u)
          /\ \A t \in Sessions, password \in Passwords :
               LET result == LoginResult(t, [email |-> a.email, password |-> password])' IN
               result.user = Anonymous /\ result.response.outcome = "InvalidCredentials"]_vars

----------------------------------------------------------------------------
(* Properties of ownership, checked under SpecContent *)

\* C6: an edit or delete of a post or a comment requested by a logged-in
\* member who is not its author is answered NotAuthor and changes no row of
\* any table.
C6_NotAuthorRejected ==
  [][\A s \in Sessions :
       /\ \A p \in PostIds, form \in PostForms :
            ( /\ edit_post(s, p, form) \/ delete_post(s, p)
              /\ is_authenticated(s) /\ PostRow(p).user_id # current_user[s] )
            => (resp'.outcome = "NotAuthor" /\ UNCHANGED db)
       /\ \A c \in CommentIds, text \in CommentTexts :
            ( /\ edit_comment(s, c, text) \/ delete_comment(s, c)
              /\ is_authenticated(s) /\ CommentRow(c).user_id # current_user[s] )
            => (resp'.outcome = "NotAuthor" /\ UNCHANGED db)]_vars

\* an edit of a post by a member who is not its author was answered NotAuthor;
\* the post and a comment are stored
C6_Witness ==
  /\ resp.op = "edit_post" /\ resp.outcome = "NotAuthor"
  /\ resp.user # Anonymous
  /\ \E p \in posts : p.id = resp.request.post_id /\ p.user_id # resp.user
  /\ comments # {}

----------------------------------------------------------------------------
(* A member's posts and their edits *)

EditForms ==
  {[title |-> "", content |-> " hello ", image |-> "", video |-> ""],
   [title |-> " ", content |-> "edit", image |-> "", video |-> ""],
   [title |-> " News", content |-> "bye", image |-> "my pic.png", video |-> "clip.mp4"]}

NextEdit ==
  \E s \in {"s1"} :
    \/ \E form \in MemberLogins : login(s, form)
    \/ logout(s)
    \/ \E form \in EditForms : new_post(s, form)
    \/ \E p \in PostIdInputs, form \in EditForms : edit_post(s, p, form)

SpecEdit == InitMembers /\ [][NextEdit]_vars

\* C16: an edit_post by the post's author leaves the image reference and the
\* video reference as they were unless the request supplies a new image or
\* video, leaves the title as it was when the request's title is empty or
\* blank, never changes the post's author or likes_count, and changes no other
\* row.
C16_EditPostChangesSuppliedFieldsOnly ==
  [][\A s \in Sessions, p \in PostIds, form \in EditForms :
       (edit_post(s, p, form) /\ is_authenticated(s) /\ PostRow(p).user_id = current_user[s])
       => /\ \E q \in posts' :
               /\ q.id = p
               /\ q.user_id = PostRow(p).user_id
               /\ q.likes_count = PostRow(p).likes_count
               /\ form.image = "" => q.image_file = PostRow(p).image_file
               /\ form.video = "" => q.video_file = PostRow(p).video_file
               /\ strip(form.title) = "" => q.title = PostRow(p).title
          /\ posts' \ {q \in posts' : q.id = p} = posts \ {PostRow(p)}
          /\ UNCHANGED <<users, comments, likes>>]_vars

----------------------------------------------------------------------------
(* One browser session over all its routes *)

SessionPostForms == {[title |-> "", content |-> "hello", image |-> "", video |-> ""]}
SessionEditForms == {[title |-> "News", content |-> "bye", image |-> "", video |-> ""]}
SessionNonces == {"n1"}
SessionCommentTexts == {"nice"}
EditProfileForms == [username : {"", "bob", "cat"}, email : {"ann@cs.edu"}]
SessionAssertions == [sub : Subjects, email : {"ann@cs.edu"}, name : {"Ann Lee"}, nonce : Nonces]

NextSession ==
  \E s \in {"s1"} :
    \/ \E form \in MemberLogins : login(s, form)
    \/ logout(s)
    \/ clear_session(s)
    \/ \E nonce \in SessionNonces : google_login(s, nonce)
    \/ \E ok \in BOOLEAN, a \in SessionAssertions : google_callback(s, ok, a)
    \/ \E form \in EditProfileForms : edit_profile(s, form)
    \/ \E form \in SessionPostForms : new_post(s, form)
    \/ \E p \in PostIdInputs, form \in SessionEditForms : edit_post(s, p, form)
    \/ \E p \in PostIdInputs : delete_post(s, p)
    \/ \E p \in PostIdInputs, text \in SessionCommentTexts : add_comment(s, p, text)
    \/ \E c \in CommentIdInputs, text \in SessionCommentTexts : edit_comment(s, c, text)
    \/ \E c \in CommentIdInputs : delete_comment(s, c)
    \/ \E p \in PostIdInputs : toggle_like(s, p)
    \/ toggle_like_commit(s)

SpecSession == InitMembers /\ [][NextSession]_vars

\* a request of session s to a route that writes posts, comments, likes or
\* the member's profile
StateChangingRequest(s) ==
  \/ \E form \in EditProfileForms : edit_profile(s, form)
  \/ \E form \in SessionPostForms : new_post(s, form)
  \/ \E p \in PostIdInputs, form \in SessionEditForms : edit_post(s, p, form)
  \/ \E p \in PostIdInputs : delete_post(s, p)
  \/ \E p \in PostIdInputs, text \in SessionCommentTexts : add_comment(s, p, text)
  \/ \E c \in CommentIdInputs, text \in SessionCommentTexts : edit_comment(s, c, text)
  \/ \E c \in CommentIdInputs : delete_comment(s, c)
  \/ \E p \in PostIdInputs : toggle_like(s, p)
  \/ toggle_like_commit(s)

\* the post rows q and r differ in likes_count at most
SameButLikesCount(q, r) == [q EXCEPT !.likes_count = r.likes_count] = r

\* what changed in storage is member m's: rows inserted carry m's id, rows
\* changed or deleted were m's or hung on a post of m's that was deleted, and
\* of another member's post only likes_count changed
AttributedTo(m) ==
  /\ \A u \in users' \ users : u.id = m
  /\ \A u \in users \ users' : u.id = m
  /\ \A q \in posts' \ posts :
       q.user_id = m \/ \E r \in posts : r.id = q.id /\ SameButLikesCount(r, q)
  /\ \A r \in posts \ posts' :
       r.user_id = m \/ \E q \in posts' : r.id = q.id /\ SameButLikesCount(r, q)
  /\ \A c \in comments' \ comments : c.user_id = m
  /\ \A c \in comments \ comments' :
       c.user_id = m \/ \E r \in posts \ posts' : r.id = c.post_id /\ r.user_id = m
  /\ \A l \in likes' \ likes : l.user_id = m
  /\ \A l \in likes \ likes' :
       l.user_id = m \/ \E r \in posts \ posts' : r.id = l.post_id /\ r.user_id = m

\* C18: a session carries no member or one stored member; logout leaves it
\* with none; a state-changing request of a session that carries no member
\* changes nothing in storage, and one of a session that carries a member
\* changes only what is that member's.
C18_SessionBoundary ==
  [][\A s \in Sessions :
       /\ current_user'[s] \in {Anonymous} \cup {u.id : u \in users'}
       /\ logout(s) => current_user'[s] = Anonymous
       /\ (StateChangingRequest(s) /\ current_user[s] = Anonymous) => UNCHANGED db
       /\ (StateChangingRequest(s) /\ current_user[s] # Anonymous)
            => (AttributedTo(current_user[s]) /\ current_user'[s] = current_user[s])]_vars

\* after logging in, publishing a post and logging out, the session was sent
\* to the login page when it asked to publish another
C18_Witness ==
  /\ resp.op = "new_post" /\ resp.outcome = "LoginRequired"
  /\ current_user["s1"] = Anonymous
  /\ posts # {}

====
